---------------------------- MODULE Spec2Model ----------------------------
(***************************************************************************)
(* A model of the connector's start-up configuration resolver              *)
(* (getLocalConfig and its validators and parsers) and of the ledger       *)
(* plugin registry (Multiledger), both in src/src/lib/multiledger.js.      *)
(*                                                                         *)
(* Conventions.                                                            *)
(*  - JavaScript `undefined` is the string Undef; a missing property of an *)
(*    object is a field holding Undef.                                     *)
(*  - Ledger URIs and the "<currency>@<ledger>" tokens are sequences of    *)
(*    one-character strings, so that splitting and joining are computed.   *)
(*  - An environment variable holding JSON is a record [t, v]: t is        *)
(*    "undef" (unset), "empty" (set to ''), "malformed" (JSON.parse        *)
(*    throws) or "json" (v is the parsed value).                           *)
(*  - A JavaScript object with ordered keys (the CREDENTIALS object) is a  *)
(*    sequence of [ledger, cred] entries with distinct ledgers.            *)
(*  - A function that may throw returns [ok |-> TRUE, v |-> ...] or        *)
(*    [ok |-> FALSE, err |-> [cat, kind, who]].                            *)
(*  - Numbers are [nan, milli]: NaN, or an exact count of thousandths.     *)
(***************************************************************************)
EXTENDS Integers, Sequences, FiniteSets, TLC

VARIABLES
    env,            \* process.env / process.argv, as the resolver reads them
    call,           \* the resolver function last called ("none" before any)
    result,         \* what that call returned or threw
    options,        \* options.config handed to new Multiledger(options)
    pc,             \* registry: "unbuilt", "built" or "failed"
    ledgers,        \* this.ledgers: a reference into heap (0: not assigned)
    heap,           \* reference -> ledger-id to handle mapping (an object)
    plugins,        \* the arguments each constructed plugin received
    ledgersHealth,  \* this.ledgersHealth.ledgersHealth
    connected,      \* what each handle's isConnected() returns now
    ret             \* what the last registry method returned or threw

vars == <<env, call, result, options, pc, ledgers, heap, plugins,
          ledgersHealth, connected, ret>>

configVars == <<env, call, result>>
registryVars == <<options, pc, ledgers, heap, plugins, ledgersHealth,
                  connected, ret>>

-----------------------------------------------------------------------------
(* Values *)

Undef == "undefined"

\* JavaScript truthiness of a string-or-undefined value.
Truthy(x) == x # Undef /\ x # ""

NoLedger == << >>

Ok(v) == [ok |-> TRUE, v |-> v]

Throw(cat, kind, who) ==
    [ok |-> FALSE, err |-> [cat |-> cat, kind |-> kind, who |-> who]]

NaN == [nan |-> TRUE, milli |-> 0]

Num(m) == [nan |-> FALSE, milli |-> m]

\* JavaScript truthiness of a number: 0 and NaN are falsy.
NumTruthy(n) == ~n.nan /\ n.milli # 0

JsonUndef == [t |-> "undef"]
JsonEmpty == [t |-> "empty"]
JsonMalformed == [t |-> "malformed"]
Json(v) == [t |-> "json", v |-> v]

\* `Config.getEnv(...) || fallback` followed by JSON.parse: an unset or empty
\* variable parses the fallback.
JsonOr(j, fallback) ==
    CASE j.t = "json" -> Ok(j.v)
      [] j.t = "malformed" -> Throw("syntax", "SyntaxError", NoLedger)
      [] OTHER -> Ok(fallback)

-----------------------------------------------------------------------------
(* Strings as sequences of characters *)

RECURSIVE IndexFrom(_, _, _)
IndexFrom(s, c, i) ==
    IF i > Len(s) THEN 0
    ELSE IF s[i] = c THEN i
    ELSE IndexFrom(s, c, i + 1)

\* String.prototype.indexOf: 0-based, -1 when absent.
IndexOf(s, c) == IndexFrom(s, c, 1) - 1

\* String.prototype.substr(start, length) for start >= 0: a negative length
\* gives the empty string.
Substr(s, start, length) ==
    IF length <= 0 THEN << >>
    ELSE SubSeq(s, start + 1, IF start + length > Len(s) THEN Len(s) ELSE start + length)

\* String.prototype.substr(start) for start >= 0.
SubstrFrom(s, start) == SubSeq(s, start + 1, Len(s))


-----------------------------------------------------------------------------
(* The process environment and the file system *)

\* Files fs.accessSync(path, fs.R_OK) and fs.readFileSync(path) succeed on.
ReadableFiles == {"ok.pem", "ca.pem"}

FileBytes(path) ==
    CASE path = "ok.pem" -> "<bytes of ok.pem>"
      [] path = "ca.pem" -> "<bytes of ca.pem>"

\* fs.accessSync(path, fs.R_OK): TRUE when it returns, FALSE when it throws.
accessSync(path) == path \in ReadableFiles

readFileSync(path) ==
    IF path \in ReadableFiles THEN Ok(FileBytes(path))
    ELSE Throw("fs", "ENOENT", NoLedger)

\* String.prototype.endsWith('mocha') on a process.argv entry.
EndsWithMocha(arg) == arg \in {"mocha", "_mocha"}

EndsWithNode(arg) == arg \in {"node"}

\* Config.castBool(value, defaultValue): trims, undefined gives the default,
\* and only 'true' (any case) and '1' are true.
castBool(value, defaultValue) ==
    IF value = Undef THEN defaultValue
    ELSE value \in {"true", "TRUE", "1"}

\* Unary plus and Number(): the Number a string override converts to.
ToNumber(s) ==
    CASE s = Undef -> NaN
      [] s = "" -> Num(0)
      [] s = "abc" -> NaN
      [] s = "0" -> Num(0)
      [] s = "0.5" -> Num(500)
      [] s = " 7 " -> Num(7000)
      [] s = "1e3" -> Num(1000000)

\* The environment with nothing set, started as `node app.js`.
EmptyEnv ==
    [ NODE_ENV |-> Undef,
      argv |-> <<"node", "app.js">>,
      UNIT_TEST_OVERRIDE |-> Undef,
      CREDENTIALS |-> JsonUndef,
      ADMIN_USER |-> Undef,
      ADMIN_PASS |-> Undef,
      ADMIN_KEY |-> Undef,
      ADMIN_CERT |-> Undef,
      ADMIN_CA |-> Undef,
      LEDGERS |-> JsonUndef,
      PAIRS |-> JsonUndef,
      NOTIFICATION_VERIFY |-> Undef,
      NOTIFICATION_KEYS |-> JsonUndef,
      DEBUG_AUTOFUND |-> Undef,
      DEBUG_REPLY_NOTIFICATIONS |-> Undef,
      BACKEND |-> Undef,
      BACKEND_URI |-> Undef,
      MIN_MESSAGE_WINDOW |-> Undef,
      MAX_HOLD_TIME |-> Undef,
      FX_SPREAD |-> Undef,
      SLIPPAGE |-> Undef,
      ROUTE_BROADCAST_INTERVAL |-> Undef,
      ROUTE_CLEANUP_INTERVAL |-> Undef,
      ROUTE_EXPIRY |-> Undef ]

\* A credential object with no property set.
EmptyCred ==
    [ account |-> Undef, account_uri |-> Undef, username |-> Undef,
      password |-> Undef, key |-> Undef, cert |-> Undef, ca |-> Undef,
      type |-> Undef ]

-----------------------------------------------------------------------------
(* Defaults *)

DEFAULT_MIN_MESSAGE_WINDOW == Num(1 * 1000)
DEFAULT_MAX_HOLD_TIME == Num(10 * 1000)
DEFAULT_FX_SPREAD == Num(2)
DEFAULT_SLIPPAGE == Num(1)
DEFAULT_ROUTE_BROADCAST_INTERVAL == Num(30 * 1000 * 1000)
DEFAULT_ROUTE_CLEANUP_INTERVAL == Num(1000 * 1000)
DEFAULT_ROUTE_EXPIRY == Num(45 * 1000 * 1000)

-----------------------------------------------------------------------------
(* Test mode *)

isRunningTests(e) ==
    \/ e.NODE_ENV = "unit"
    \/ EndsWithMocha(e.argv[1])
    \/ (Len(e.argv) > 1 /\ EndsWithNode(e.argv[1]) /\ EndsWithMocha(e.argv[2]))

useTestConfig(e) ==
    ~castBool(e.UNIT_TEST_OVERRIDE, FALSE) /\ isRunningTests(e)

-----------------------------------------------------------------------------
(* Parsers *)

\* Utils.getPairs(arr): every [arr[i], arr[j]] with i < j, in order.
RECURSIVE getPairs(_)
getPairs(arr) ==
    IF Len(arr) < 2 THEN << >>
    ELSE [j \in 1..(Len(arr) - 1) |-> <<arr[1], arr[j + 1]>>] \o getPairs(Tail(arr))

DescToString(desc) == desc.currency \o <<"@">> \o desc.ledger

PairToStrings(pair) == <<DescToString(pair[1]), DescToString(pair[2])>>

generateDefaultPairs(ledgerList) ==
    LET pairs == getPairs(ledgerList)
    IN [i \in 1..Len(pairs) |-> PairToStrings(pairs[i])]

parseCredentialsEnv(e) ==
    LET p == JsonOr(e.CREDENTIALS, << >>)
    IN IF p.ok THEN p ELSE Throw("credentials", "SyntaxError in CREDENTIALS", NoLedger)

ParseLedgerToken(ledger) ==
    LET sep == IndexOf(ledger, "@")
    IN [currency |-> Substr(ledger, 0, sep), ledger |-> SubstrFrom(ledger, sep + 1)]

parseLedgers(e) ==
    LET p == JsonOr(e.LEDGERS, << >>)
    IN IF p.ok THEN Ok([i \in 1..Len(p.v) |-> ParseLedgerToken(p.v[i])])
       ELSE Throw("ledgers", "SyntaxError in LEDGERS", NoLedger)

parseAdminEnv(e) ==
    [ username |-> IF Truthy(e.ADMIN_USER) THEN e.ADMIN_USER ELSE "admin",
      password |-> e.ADMIN_PASS,
      key |-> e.ADMIN_KEY,
      cert |-> e.ADMIN_CERT,
      ca |-> e.ADMIN_CA ]

parseNotificationSignEnv(e) ==
    LET isProduction == e.NODE_ENV = "production"
        mustVerify == castBool(e.NOTIFICATION_VERIFY, isProduction)
        keys == JsonOr(e.NOTIFICATION_KEYS, << >>)
    IN IF keys.ok THEN Ok([must_verify |-> mustVerify, keys |-> keys.v])
       ELSE Throw("notifications", "Failed to parse CONNECTOR_NOTIFICATION_KEYS", NoLedger)

\* `expr && fs.readFileSync(expr)`: a falsy path is the value itself.
ReadIfTruthy(path) == IF Truthy(path) THEN readFileSync(path) ELSE Ok(path)

\* The callback of _.mapValues in parseCredentials, for one credential.
ParseCredential(credentials) ==
    LET ca == ReadIfTruthy(credentials.ca)
    IN IF credentials.key # Undef
       THEN LET key == readFileSync(credentials.key)
                cert == readFileSync(credentials.cert)
            IN IF ~key.ok THEN key
               ELSE IF ~cert.ok THEN cert
               ELSE IF ~ca.ok THEN ca
               ELSE Ok([credentials EXCEPT !.key = key.v, !.cert = cert.v, !.ca = ca.v])
       ELSE IF ~ca.ok THEN ca
       ELSE Ok([credentials EXCEPT !.ca = ca.v])

RECURSIVE ParseCredentialEntries(_)
ParseCredentialEntries(entries) ==
    IF entries = << >> THEN Ok(<< >>)
    ELSE LET first == ParseCredential(Head(entries).cred)
         IN IF ~first.ok THEN first
            ELSE LET rest == ParseCredentialEntries(Tail(entries))
                 IN IF ~rest.ok THEN rest
                    ELSE Ok(<<[ledger |-> Head(entries).ledger, cred |-> first.v]>> \o rest.v)

parseCredentials(e) ==
    LET credentialsEnv == parseCredentialsEnv(e)
    IN IF ~credentialsEnv.ok THEN credentialsEnv
       ELSE ParseCredentialEntries(credentialsEnv.v)

-----------------------------------------------------------------------------
(* Validators: Ok(TRUE) when the function returns, the error when it throws *)

\* `path && fs.accessSync(path, fs.R_OK)` returns without throwing.
AccessIfTruthy(path) == Truthy(path) => accessSync(path)

\* ValidateCredential with the username check moved before the key-or-password
\* check.
ValidateCredential_UsernameFirst(credential, ledger) ==
    IF credential.username = Undef
    THEN Throw("credentials", "Missing username for ledger", ledger)
    ELSE IF credential.key = Undef /\ credential.password = Undef
    THEN Throw("credentials", "Missing key or password for ledger", ledger)
    ELSE IF (credential.cert = Undef) # (credential.key = Undef)
    THEN Throw("credentials", "Missing certificate or key for ledger", ledger)
    ELSE IF credential.account_uri = Undef
    THEN Throw("credentials", "Missing account_uri for ledger", ledger)
    ELSE IF ~(/\ AccessIfTruthy(credential.cert)
              /\ AccessIfTruthy(credential.key)
              /\ AccessIfTruthy(credential.ca))
    THEN Throw("credentials", "Failed to read credentials for ledger", ledger)
    ELSE Ok(TRUE)

\* The callback of _.forEach in validateCredentialsEnv, for one credential.
ValidateCredential(credential, ledger) ==
    IF credential.key = Undef /\ credential.password = Undef
    THEN Throw("credentials", "Missing key or password for ledger", ledger)
    ELSE IF credential.username = Undef
    THEN Throw("credentials", "Missing username for ledger", ledger)
    ELSE IF (credential.cert = Undef) # (credential.key = Undef)
    THEN Throw("credentials", "Missing certificate or key for ledger", ledger)
    ELSE IF credential.account_uri = Undef
    THEN Throw("credentials", "Missing account_uri for ledger", ledger)
    ELSE IF ~(/\ AccessIfTruthy(credential.cert)
              /\ AccessIfTruthy(credential.key)
              /\ AccessIfTruthy(credential.ca))
    THEN Throw("credentials", "Failed to read credentials for ledger", ledger)
    ELSE Ok(TRUE)

RECURSIVE ValidateCredentialEntries(_)
ValidateCredentialEntries(entries) ==
    IF entries = << >> THEN Ok(TRUE)
    ELSE LET first == ValidateCredential(Head(entries).cred, Head(entries).ledger)
         IN IF ~first.ok THEN first
            ELSE ValidateCredentialEntries(Tail(entries))

validateCredentialsEnv(e) ==
    LET credentials == parseCredentialsEnv(e)
    IN IF ~credentials.ok THEN credentials
       ELSE ValidateCredentialEntries(credentials.v)

validateAdminEnv(e) ==
    LET admin == parseAdminEnv(e)
    IN IF (admin.cert = Undef) # (admin.key = Undef)
       THEN Throw("admin", "Missing ADMIN_CERT or ADMIN_KEY", NoLedger)
       ELSE IF ~(/\ AccessIfTruthy(admin.cert)
                 /\ AccessIfTruthy(admin.key)
                 /\ AccessIfTruthy(admin.ca))
       THEN Throw("admin", "Failed to read admin credentials", NoLedger)
       ELSE Ok(TRUE)

\* keys[uri] on the parsed NOTIFICATION_KEYS object.
KeyOf(keys, uri) == IF uri \in DOMAIN keys THEN keys[uri] ELSE Undef

\* cc.validateCondition(key) returns without throwing.
validateCondition(key) == key = "cc:0:3:valid"

RECURSIVE ValidateNotificationLedgers(_, _)
ValidateNotificationLedgers(keys, ledgerList) ==
    IF ledgerList = << >> THEN Ok(TRUE)
    ELSE LET uri == Head(ledgerList).ledger
         IN IF KeyOf(keys, uri) = Undef
            THEN Throw("notifications", "Missing notification signing keys for ledger", uri)
            ELSE IF ~validateCondition(KeyOf(keys, uri))
            THEN Throw("notifications", "Failed to read signing key for ledger", uri)
            ELSE ValidateNotificationLedgers(keys, Tail(ledgerList))

validateNotificationEnv(e) ==
    LET notifications == parseNotificationSignEnv(e)
    IN IF ~notifications.ok THEN notifications
       ELSE IF notifications.v.must_verify
       THEN LET ledgerList == parseLedgers(e)
            IN IF ~ledgerList.ok THEN ledgerList
               ELSE ValidateNotificationLedgers(notifications.v.keys, ledgerList.v)
       ELSE Ok(TRUE)

\* validateLocalEnvConfig with the credentials validated before the
\* notifications.
validateLocalEnvConfig_CredentialsFirst(e) ==
    LET c == validateCredentialsEnv(e)
    IN IF ~c.ok THEN c
       ELSE LET n == validateNotificationEnv(e)
            IN IF ~n.ok THEN n
               ELSE validateAdminEnv(e)

validateLocalEnvConfig(e) ==
    LET n == validateNotificationEnv(e)
    IN IF ~n.ok THEN n
       ELSE LET c == validateCredentialsEnv(e)
            IN IF ~c.ok THEN c
               ELSE validateAdminEnv(e)

-----------------------------------------------------------------------------
(* Assembly *)

\* A parsed JSON value other than the CREDENTIALS, LEDGERS and
\* NOTIFICATION_KEYS values: false, null or an array.
JsonFalse == [k |-> "false"]
JsonNull == [k |-> "null"]
JsonArray(items) == [k |-> "array", items |-> items]

JsonTruthy(j) == j.k \notin {"false", "null"}

\* `!value.length`: an array's length is its length, any other of these values
\* has none.
NotLength(j) == IF j.k = "array" THEN Len(j.items) = 0 ELSE TRUE

\* test/data/ledgerCredentials.json
FixtureLedgerCredentials ==
    << [ledger |-> <<"f", "1">>,
        cred |-> [EmptyCred EXCEPT !.account_uri = "fixture-1", !.username = "mark",
                                   !.password = "mark"]],
       [ledger |-> <<"f", "2">>,
        cred |-> [EmptyCred EXCEPT !.account_uri = "fixture-2", !.username = "mark",
                                   !.password = "mark"]] >>

\* test/data/tradingPairs.json
FixtureTradingPairs ==
    JsonArray(<< << <<"U", "@", "f", "1">>, <<"E", "@", "f", "2">> >> >>)

\* ResolveTradingPairs with an empty array taken as a missing value.
ResolveTradingPairs_EmptyIsFalsy(pairs, ledgerList) ==
    IF JsonTruthy(pairs) /\ ~(pairs.k = "array" /\ Len(pairs.items) = 0) THEN pairs
    ELSE JsonArray(generateDefaultPairs(ledgerList))

\* JSON.parse(Config.getEnv(envPrefix, 'PAIRS') || 'false') || generateDefaultPairs(ledgers)
ResolveTradingPairs(pairs, ledgerList) ==
    IF JsonTruthy(pairs) THEN pairs ELSE JsonArray(generateDefaultPairs(ledgerList))

\* `+override || DEFAULT` and `Number(override) || DEFAULT`
NumberOrDefault(override, default) ==
    IF NumTruthy(ToNumber(override)) THEN ToNumber(override) ELSE default

\* `override ? +override : DEFAULT`
NumberIfSet(override, default) ==
    IF Truthy(override) THEN ToNumber(override) ELSE default

UseAdmin(adminEnv) ==
    Truthy(adminEnv.username) /\ (Truthy(adminEnv.password) \/ Truthy(adminEnv.key))

\* The admin object of the configuration; a property holding Undef is omitted.
ResolveAdmin(adminEnv) ==
    IF ~UseAdmin(adminEnv) THEN Ok(Undef)
    ELSE LET key == ReadIfTruthy(adminEnv.key)
             cert == ReadIfTruthy(adminEnv.cert)
             ca == ReadIfTruthy(adminEnv.ca)
         IN IF ~key.ok THEN key
            ELSE IF ~cert.ok THEN cert
            ELSE IF ~ca.ok THEN ca
            ELSE Ok([username |-> adminEnv.username, password |-> adminEnv.password,
                     key |-> key.v, cert |-> cert.v, ca |-> ca.v])

\* getLocalConfig from the ledger credentials on: nothing before could throw.
AssembleConfig(e, ledgerList, pairs, admin, ledgerCredentials) ==
    LET test == useTestConfig(e)
        tradingPairs0 == ResolveTradingPairs(pairs, ledgerList)
    IN [ backend |-> IF Truthy(e.BACKEND) THEN e.BACKEND ELSE "fixerio",
         ledgerCredentials |-> IF test THEN FixtureLedgerCredentials ELSE ledgerCredentials,
         fxSpread |-> NumberIfSet(e.FX_SPREAD, DEFAULT_FX_SPREAD),
         slippage |-> NumberIfSet(e.SLIPPAGE, DEFAULT_SLIPPAGE),
         expiry |->
            [ minMessageWindow |->
                NumberOrDefault(e.MIN_MESSAGE_WINDOW, DEFAULT_MIN_MESSAGE_WINDOW),
              maxHoldTime |-> NumberOrDefault(e.MAX_HOLD_TIME, DEFAULT_MAX_HOLD_TIME) ],
         features |->
            [ debugAutoFund |-> castBool(e.DEBUG_AUTOFUND, FALSE),
              debugReplyNotifications |->
                IF test THEN TRUE ELSE castBool(e.DEBUG_REPLY_NOTIFICATIONS, FALSE) ],
         admin |-> admin,
         tradingPairs |->
            IF test /\ NotLength(tradingPairs0) THEN FixtureTradingPairs ELSE tradingPairs0,
         server |-> IF test THEN [base_uri |-> "http://localhost"] ELSE [base_uri |-> Undef],
         backendUri |-> e.BACKEND_URI,
         notifications |-> parseNotificationSignEnv(e).v,
         routeBroadcastInterval |->
            NumberOrDefault(e.ROUTE_BROADCAST_INTERVAL, DEFAULT_ROUTE_BROADCAST_INTERVAL),
         routeCleanupInterval |->
            NumberOrDefault(e.ROUTE_CLEANUP_INTERVAL, DEFAULT_ROUTE_CLEANUP_INTERVAL),
         routeExpiry |-> NumberOrDefault(e.ROUTE_EXPIRY, DEFAULT_ROUTE_EXPIRY) ]

\* getLocalConfig with validateLocalEnvConfig skipped in test mode.
getLocalConfig_TestSkipsValidation(e) ==
    LET valid == IF useTestConfig(e) THEN Ok(TRUE) ELSE validateLocalEnvConfig(e)
        ledgerList == parseLedgers(e)
        pairs0 == JsonOr(e.PAIRS, JsonFalse)
        pairs == IF pairs0.ok THEN pairs0
                 ELSE Throw("pairs", "SyntaxError in PAIRS", NoLedger)
        adminEnv == parseAdminEnv(e)
        admin == ResolveAdmin(adminEnv)
        ledgerCredentials == IF useTestConfig(e) THEN Ok(<< >>) ELSE parseCredentials(e)
    IN IF ~valid.ok THEN valid
       ELSE IF ~ledgerList.ok THEN ledgerList
       ELSE IF ~pairs.ok THEN pairs
       ELSE IF castBool(e.DEBUG_AUTOFUND, FALSE) /\ ~UseAdmin(adminEnv)
       THEN Throw("autofund",
                  "CONNECTOR_DEBUG_AUTOFUND requires either CONNECTOR_ADMIN_PASS or CONNECTOR_ADMIN_KEY",
                  NoLedger)
       ELSE IF ~admin.ok THEN admin
       ELSE IF ~ledgerCredentials.ok THEN ledgerCredentials
       ELSE Ok(AssembleConfig(e, ledgerList.v, pairs.v, admin.v, ledgerCredentials.v))

getLocalConfig(e) ==
    LET valid == validateLocalEnvConfig(e)
        ledgerList == parseLedgers(e)
        pairs0 == JsonOr(e.PAIRS, JsonFalse)
        pairs == IF pairs0.ok THEN pairs0
                 ELSE Throw("pairs", "SyntaxError in PAIRS", NoLedger)
        adminEnv == parseAdminEnv(e)
        admin == ResolveAdmin(adminEnv)
        ledgerCredentials == IF useTestConfig(e) THEN Ok(<< >>) ELSE parseCredentials(e)
    IN IF ~valid.ok THEN valid
       ELSE IF ~ledgerList.ok THEN ledgerList
       ELSE IF ~pairs.ok THEN pairs
       ELSE IF castBool(e.DEBUG_AUTOFUND, FALSE) /\ ~UseAdmin(adminEnv)
       THEN Throw("autofund",
                  "CONNECTOR_DEBUG_AUTOFUND requires either CONNECTOR_ADMIN_PASS or CONNECTOR_ADMIN_KEY",
                  NoLedger)
       ELSE IF ~admin.ok THEN admin
       ELSE IF ~ledgerCredentials.ok THEN ledgerCredentials
       ELSE Ok(AssembleConfig(e, ledgerList.v, pairs.v, admin.v, ledgerCredentials.v))

-----------------------------------------------------------------------------
(* Bounds and input sets *)

\* Most ledgers in a CREDENTIALS object.
MaxCreds == 2

\* Most tokens in a LEDGERS array.
MaxLedgers == 2

\* Most numeric overrides set at once.
MaxOverrides == 2

SeqsUpTo(S, n) == UNION {[1..k -> S] : k \in 0..n}

\* The i-th key of a CREDENTIALS object (the ledgers are distinct; which URI
\* comes first is immaterial to the code, which only echoes it).
LedgerUris == << <<"a">>, <<"b">>, <<"c">>, <<"d">> >>

Entries(creds) == [i \in 1..Len(creds) |-> [ledger |-> LedgerUris[i], cred |-> creds[i]]]

KeyCertChoices ==
    { <<Undef, Undef>>, <<"ok.pem", "ok.pem">>, <<"ok.pem", Undef>>,
      <<"missing.pem", "ok.pem">> }

AccountChoices ==
    { <<Undef, Undef>>, <<"acc", Undef>>, <<Undef, "uri">>, <<"acc", "uri">> }

\* Credential objects for the credential checks.
CredRecords ==
    { [EmptyCred EXCEPT !.username = u, !.password = p, !.key = kc[1], !.cert = kc[2],
                        !.account = a[1], !.account_uri = a[2]] :
        u \in {Undef, "u"}, p \in {Undef, "p"}, kc \in KeyCertChoices, a \in AccountChoices }

CredentialsValues(records, n) ==
    {JsonUndef, JsonEmpty, JsonMalformed} \cup {Json(Entries(c)) : c \in SeqsUpTo(records, n)}

GoodCred == [EmptyCred EXCEPT !.account_uri = "uri", !.username = "u", !.password = "p"]

\* One credential object per check of validateCredentialsEnv, and a good one.
CredKinds ==
    { GoodCred,
      [GoodCred EXCEPT !.password = Undef],
      [GoodCred EXCEPT !.username = Undef],
      [GoodCred EXCEPT !.cert = "ok.pem"],
      [GoodCred EXCEPT !.ca = "missing.pem"] }

TokenUSDa == <<"U", "@", "a">>
TokenEURb == <<"E", "@", "b">>
TokenNoAt == <<"X", "b">>

LedgersValues ==
    {JsonUndef, JsonMalformed}
        \cup {Json(l) : l \in SeqsUpTo({TokenUSDa, TokenEURb, TokenNoAt}, MaxLedgers)}

NotificationKeysValues ==
    {JsonUndef, JsonMalformed}
        \cup {Json(f) : f \in UNION {[D -> {"cc:0:3:valid", "garbage"}] :
                                        D \in SUBSET {<<"a">>, <<"b">>}}}

\* <<ADMIN_KEY, ADMIN_CERT, ADMIN_PASS>>
AdminChoices ==
    { <<Undef, Undef, Undef>>, <<"ok.pem", Undef, Undef>>,
      <<"ok.pem", "ok.pem", Undef>>, <<"missing.pem", "ok.pem", Undef>> }

ArgvChoices == { <<"node", "app.js">>, <<"node", "_mocha">>, <<"mocha">> }

PairsValues ==
    { JsonUndef, JsonEmpty, JsonMalformed, Json(JsonFalse), Json(JsonNull),
      Json(JsonArray(<< >>)),
      Json(JsonArray(<< <<TokenEURb, TokenUSDa>> >>)) }

NumberOverrides == {Undef, "", "abc", "0", "0.5", " 7 "}

Knobs ==
    { "FX_SPREAD", "SLIPPAGE", "MIN_MESSAGE_WINDOW", "MAX_HOLD_TIME",
      "ROUTE_BROADCAST_INTERVAL", "ROUTE_CLEANUP_INTERVAL", "ROUTE_EXPIRY" }

\* Environments for the credential checks: only CREDENTIALS is set.
CredEnvs ==
    { [EmptyEnv EXCEPT !.CREDENTIALS = c] : c \in CredentialsValues(CredRecords, MaxCreds) }

\* Environments for the order of validation: each category can be violated.
OrderEnvs ==
    { [EmptyEnv EXCEPT !.NODE_ENV = n, !.NOTIFICATION_VERIFY = v,
                       !.NOTIFICATION_KEYS = k, !.LEDGERS = l, !.CREDENTIALS = c,
                       !.ADMIN_KEY = a[1], !.ADMIN_CERT = a[2], !.ADMIN_PASS = a[3]] :
        n \in {Undef, "production"}, v \in {Undef, "true", "false"},
        k \in NotificationKeysValues, l \in LedgersValues,
        c \in CredentialsValues(CredKinds, 1), a \in AdminChoices }

\* Environments for assembly: test mode, PAIRS and LEDGERS, valid or not.
AssembleEnvs ==
    { [EmptyEnv EXCEPT !.NODE_ENV = n, !.argv = av, !.UNIT_TEST_OVERRIDE = o,
                       !.PAIRS = p, !.LEDGERS = l, !.CREDENTIALS = c,
                       !.ADMIN_KEY = a[1], !.ADMIN_CERT = a[2], !.ADMIN_PASS = a[3],
                       !.DEBUG_AUTOFUND = f] :
        n \in {Undef, "unit", "production"}, av \in ArgvChoices, o \in {Undef, "true"},
        p \in PairsValues, l \in LedgersValues,
        c \in { JsonUndef, Json(Entries(<<GoodCred>>)),
                Json(Entries(<<[GoodCred EXCEPT !.username = Undef]>>)),
                Json(Entries(<<[GoodCred EXCEPT !.key = "", !.cert = ""]>>)) },
        a \in { <<Undef, Undef, Undef>>, <<"ok.pem", Undef, Undef>> },
        f \in {Undef, "true"} }

\* Environments for the numeric knobs: at most MaxOverrides of them are set.
KnobEnvs ==
    { [k \in DOMAIN EmptyEnv |-> IF k \in DOMAIN o THEN o[k] ELSE EmptyEnv[k]] :
        o \in UNION { [K -> NumberOverrides \ {Undef}] :
                        K \in {S \in SUBSET Knobs : Cardinality(S) <= MaxOverrides} } }

-----------------------------------------------------------------------------
(* The configuration resolver as a state machine *)

NoResult == [ok |-> TRUE, v |-> Undef]

\* No Multiledger has been constructed.
RegistryUnbuilt ==
    /\ options = << >>
    /\ pc = "unbuilt"
    /\ ledgers = 0
    /\ heap = << >>
    /\ plugins = << >>
    /\ ledgersHealth = Undef
    /\ connected = << >>
    /\ ret = [op |-> "none"]

ConfigInit(envs) ==
    /\ env \in envs
    /\ call = "none"
    /\ result = NoResult
    /\ RegistryUnbuilt

CallGetLocalConfig ==
    /\ call' = "getLocalConfig"
    /\ result' = getLocalConfig(env)
    /\ UNCHANGED <<env, registryVars>>

CallValidateCredentialsEnv ==
    /\ call' = "validateCredentialsEnv"
    /\ result' = validateCredentialsEnv(env)
    /\ UNCHANGED <<env, registryVars>>

CallValidateLocalEnvConfig ==
    /\ call' = "validateLocalEnvConfig"
    /\ result' = validateLocalEnvConfig(env)
    /\ UNCHANGED <<env, registryVars>>

InitCred == ConfigInit(CredEnvs)
NextCred == CallValidateCredentialsEnv \/ CallGetLocalConfig
SpecCred == InitCred /\ [][NextCred]_vars

InitOrder == ConfigInit(OrderEnvs)
NextOrder == CallValidateLocalEnvConfig \/ CallGetLocalConfig
SpecOrder == InitOrder /\ [][NextOrder]_vars

InitAssemble == ConfigInit(AssembleEnvs)
NextAssemble == CallGetLocalConfig
SpecAssemble == InitAssemble /\ [][NextAssemble]_vars

InitKnobs == ConfigInit(KnobEnvs)
NextKnobs == CallGetLocalConfig
SpecKnobs == InitKnobs /\ [][NextKnobs]_vars

-----------------------------------------------------------------------------
(* Properties of the configuration resolver *)

\* The categories of validation whose validator, run alone, throws.
ViolatedCategories(e) ==
    {c \in {"notifications", "credentials", "admin"} :
        \/ c = "notifications" /\ ~validateNotificationEnv(e).ok
        \/ c = "credentials" /\ ~validateCredentialsEnv(e).ok
        \/ c = "admin" /\ ~validateAdminEnv(e).ok}

\* The error of the earliest violated category, in the order notifications,
\* credentials, admin.
EarliestViolation(e) ==
    IF "notifications" \in ViolatedCategories(e) THEN validateNotificationEnv(e)
    ELSE IF "credentials" \in ViolatedCategories(e) THEN validateCredentialsEnv(e)
    ELSE validateAdminEnv(e)

C1_EarliestReported ==
    (call \in {"getLocalConfig", "validateLocalEnvConfig"}
        /\ Cardinality(ViolatedCategories(env)) > 1)
    => result = EarliestViolation(env)

C1_SameErrorAgain ==
    (call = "getLocalConfig" /\ call' = "getLocalConfig" /\ ~result.ok) => result' = result

\* C1: when an environment violates more than one category of validation, the
\* error getLocalConfig throws is the one of the earliest violated category in
\* the order notifications, credentials, admin, and calling it again on the
\* same environment throws the same error.
C1_ValidationOrder == [](C1_EarliestReported) /\ [][C1_SameErrorAgain]_vars

\* C1's case: a missing notification key together with an incomplete ledger
\* credential and an admin key without certificate; the notification error is
\* thrown.
C1_Witness ==
    /\ call = "getLocalConfig"
    /\ ViolatedCategories(env) = {"notifications", "credentials", "admin"}
    /\ ~result.ok
    /\ result.err.kind = "Missing notification signing keys for ledger"
    /\ validateCredentialsEnv(env).err.kind = "Missing username for ledger"

\* The entries of the parsed CREDENTIALS object (none when it does not parse).
CredEntries(e) == IF e.CREDENTIALS.t = "json" THEN e.CREDENTIALS.v ELSE << >>

LacksKeyAndPassword(c) == c.key = Undef /\ c.password = Undef

LackingEntries(e) ==
    {i \in 1..Len(CredEntries(e)) : LacksKeyAndPassword(CredEntries(e)[i].cred)}

FailingEntries(e) ==
    {i \in 1..Len(CredEntries(e)) :
        ~ValidateCredential(CredEntries(e)[i].cred, CredEntries(e)[i].ledger).ok}

Min(S) == CHOOSE x \in S : \A y \in S : x <= y

\* C2 as stated: whenever some record has neither password nor key,
\* validateCredentialsEnv throws an error naming a ledger that lacks both, and
\* getLocalConfig returns no configuration object.
C2_Original ==
    LackingEntries(env) # {} =>
        /\ call = "validateCredentialsEnv" =>
            /\ ~result.ok
            /\ \E i \in LackingEntries(env) : result.err.who = CredEntries(env)[i].ledger
        /\ call = "getLocalConfig" => ~result.ok

\* C2 (amended): whenever some record has neither password nor key,
\* validateCredentialsEnv throws and getLocalConfig returns no configuration
\* object; the error names the first ledger, in the object's key order, whose
\* record fails a check.  It is "Missing key or password" for the first ledger
\* lacking both when every earlier record passes all checks; otherwise it is
\* another check's error and names an earlier ledger.
C2_FirstFailingLedgerNamed ==
    LackingEntries(env) # {} =>
        /\ call \in {"validateCredentialsEnv", "getLocalConfig"} => ~result.ok
        /\ call = "validateCredentialsEnv" =>
            LET i == Min(LackingEntries(env))
                j == Min(FailingEntries(env))
            IN IF j = i
               THEN result = Throw("credentials", "Missing key or password for ledger",
                                   CredEntries(env)[i].ledger)
               ELSE /\ j < i
                    /\ result.err.who = CredEntries(env)[j].ledger
                    /\ result.err.kind # "Missing key or password for ledger"

\* C2's case: the second ledger lacks both password and key, the first one has
\* a password but no username, and the error names the first.
C2_Witness ==
    /\ call = "validateCredentialsEnv"
    /\ Len(CredEntries(env)) = 2
    /\ LackingEntries(env) = {2}
    /\ result = Throw("credentials", "Missing username for ledger", CredEntries(env)[1].ledger)

\* A credential that passes every check other than the one of the account
\* identifier.
OtherwiseComplete(c) ==
    /\ c.username # Undef
    /\ c.password # Undef \/ c.key # Undef
    /\ (c.cert = Undef) = (c.key = Undef)
    /\ AccessIfTruthy(c.cert) /\ AccessIfTruthy(c.key) /\ AccessIfTruthy(c.ca)

HasAccountIdentifier(c) == c.account # Undef \/ c.account_uri # Undef

\* C3 as stated: an otherwise complete credential passes validateCredentialsEnv
\* when it carries `account` or `account_uri`, and is rejected for a missing
\* account identifier only when it carries neither.
C3_Original ==
    (/\ call = "validateCredentialsEnv"
     /\ env.CREDENTIALS.t = "json"
     /\ \A i \in 1..Len(CredEntries(env)) : OtherwiseComplete(CredEntries(env)[i].cred))
    => (result.ok <=>
            \A i \in 1..Len(CredEntries(env)) : HasAccountIdentifier(CredEntries(env)[i].cred))

\* C4 as stated: in test mode getLocalConfig succeeds for every environment,
\* also one whose CREDENTIALS, ADMIN_* or notification settings fail
\* validation, and returns the fixture credentials with
\* debugReplyNotifications on.  (Read in the claim's favour: environments whose
\* LEDGERS or PAIRS do not parse, or that ask for auto-funding, are left out.)
C4_Original ==
    (/\ call = "getLocalConfig"
     /\ useTestConfig(env)
     /\ env.LEDGERS.t # "malformed"
     /\ env.PAIRS.t # "malformed"
     /\ ~castBool(env.DEBUG_AUTOFUND, FALSE)) =>
        /\ result.ok
        /\ result.v.ledgerCredentials = FixtureLedgerCredentials
        /\ result.v.features.debugReplyNotifications = TRUE

\* Everything getLocalConfig does before the ledger credentials returns
\* without throwing.
AssemblyPreconditions(e) ==
    /\ validateLocalEnvConfig(e).ok
    /\ e.LEDGERS.t # "malformed"
    /\ e.PAIRS.t # "malformed"
    /\ ~(castBool(e.DEBUG_AUTOFUND, FALSE) /\ ~UseAdmin(parseAdminEnv(e)))
    /\ ResolveAdmin(parseAdminEnv(e)).ok

\* C4 (amended): in test mode getLocalConfig still validates the environment
\* first and throws the validation error of an environment that fails it; what
\* test mode bypasses is parseCredentials, the loading of the CREDENTIALS
\* files.  When validation and the parsing of LEDGERS, PAIRS and the admin
\* settings succeed, it returns a configuration whose ledgerCredentials are the
\* fixture credentials and whose debugReplyNotifications is true.
C4_TestModeStillValidates ==
    (call = "getLocalConfig" /\ useTestConfig(env)) =>
        /\ ~validateLocalEnvConfig(env).ok => result = validateLocalEnvConfig(env)
        /\ AssemblyPreconditions(env) <=> result.ok
        /\ result.ok =>
            /\ result.v.ledgerCredentials = FixtureLedgerCredentials
            /\ result.v.features.debugReplyNotifications = TRUE

\* C4's case: test mode, a CREDENTIALS object that passes validation but whose
\* key file parseCredentials could not read; the fixtures are returned.
C4_Witness ==
    /\ call = "getLocalConfig"
    /\ useTestConfig(env)
    /\ env.NODE_ENV # "unit"
    /\ Len(CredEntries(env)) = 1
    /\ ~parseCredentials(env).ok
    /\ result.ok
    /\ result.v.ledgerCredentials = FixtureLedgerCredentials
    /\ result.v.features.debugReplyNotifications = TRUE

IsJsonArray(j) == j.t = "json" /\ j.v.k = "array"

\* C5 as stated: outside test mode tradingPairs is PAIRS verbatim when PAIRS is
\* a non-empty list, and the generated default pairs both when PAIRS is absent
\* and when it is the empty list.
C5_Original ==
    (call = "getLocalConfig" /\ ~useTestConfig(env) /\ result.ok) =>
        /\ (IsJsonArray(env.PAIRS) /\ Len(env.PAIRS.v.items) > 0)
            => result.v.tradingPairs = env.PAIRS.v
        /\ (env.PAIRS.t = "undef" \/ (IsJsonArray(env.PAIRS) /\ Len(env.PAIRS.v.items) = 0))
            => result.v.tradingPairs = JsonArray(generateDefaultPairs(parseLedgers(env).v))

\* C5 (amended): outside test mode tradingPairs is PAIRS verbatim when PAIRS is
\* a list, the empty list included (an explicit `[]` gives no trading pairs),
\* and the generated default pairs when PAIRS is absent, the empty string or
\* a falsy JSON value (false, null).
C5_ExplicitListVerbatim ==
    (call = "getLocalConfig" /\ ~useTestConfig(env) /\ result.ok) =>
        /\ IsJsonArray(env.PAIRS) => result.v.tradingPairs = env.PAIRS.v
        /\ (env.PAIRS.t \in {"undef", "empty"} \/ env.PAIRS \in {Json(JsonFalse), Json(JsonNull)})
            => result.v.tradingPairs = JsonArray(generateDefaultPairs(parseLedgers(env).v))

\* C5's case: PAIRS is `[]` over two ledgers that would generate one pair, and
\* the resolved list is empty.
C5_Witness ==
    /\ call = "getLocalConfig"
    /\ ~useTestConfig(env)
    /\ env.PAIRS = Json(JsonArray(<< >>))
    /\ env.LEDGERS = Json(<<TokenUSDa, TokenEURb>>)
    /\ generateDefaultPairs(parseLedgers(env).v) = << <<TokenUSDa, TokenEURb>> >>
    /\ result.ok
    /\ result.v.tradingPairs = JsonArray(<< >>)

KnobValue(config, knob) ==
    CASE knob = "FX_SPREAD" -> config.fxSpread
      [] knob = "SLIPPAGE" -> config.slippage
      [] knob = "MIN_MESSAGE_WINDOW" -> config.expiry.minMessageWindow
      [] knob = "MAX_HOLD_TIME" -> config.expiry.maxHoldTime
      [] knob = "ROUTE_BROADCAST_INTERVAL" -> config.routeBroadcastInterval
      [] knob = "ROUTE_CLEANUP_INTERVAL" -> config.routeCleanupInterval
      [] knob = "ROUTE_EXPIRY" -> config.routeExpiry

\* The documented defaults: 0.002, 0.001, 1, 10, 30000, 1000, 45000.
DocumentedDefault(knob) ==
    CASE knob = "FX_SPREAD" -> Num(2)
      [] knob = "SLIPPAGE" -> Num(1)
      [] knob = "MIN_MESSAGE_WINDOW" -> Num(1000)
      [] knob = "MAX_HOLD_TIME" -> Num(10000)
      [] knob = "ROUTE_BROADCAST_INTERVAL" -> Num(30000000)
      [] knob = "ROUTE_CLEANUP_INTERVAL" -> Num(1000000)
      [] knob = "ROUTE_EXPIRY" -> Num(45000000)

\* C6 as stated: getLocalConfig does not throw, and each numeric knob is its
\* documented default when its override is absent (unset or empty) or does not
\* parse as a number, and is the parsed number otherwise.
C6_Original ==
    call = "getLocalConfig" =>
        /\ result.ok
        /\ \A knob \in Knobs :
            IF env[knob] \in {Undef, ""} \/ ToNumber(env[knob]).nan
            THEN KnobValue(result.v, knob) = DocumentedDefault(knob)
            ELSE KnobValue(result.v, knob) = ToNumber(env[knob])

-----------------------------------------------------------------------------
(* The ledger plugin registry (Multiledger) *)

\* Most mappings getLedgers hands out.
MaxCopies == 1

\* Most ledgers of a registry whose mapping callers then change.
MaxHandles == 2

\* The plugin modules require('ilp-plugin-' + type) finds.
InstalledPluginTypes == {"bells", "virtual"}

\* `undefined` where a handle is expected.
NoHandle == << >>

\* A handle that no registry built: what a caller may store in a mapping it
\* was given.
ForeignHandle == <<"x">>

\* Lines 27-33 of buildLedgers: the credential object after the migration of
\* account_uri and the defaulting of type.
MigrateCreds(creds) ==
    LET migrated == IF Truthy(creds.account_uri)
                    THEN [creds EXCEPT !.account = creds.account_uri, !.account_uri = Undef]
                    ELSE creds
    IN [migrated EXCEPT !.type = IF Truthy(migrated.type) THEN migrated.type ELSE "bells"]

\* The body of the forEach callback of buildLedgers for one ledger: the
\* arguments of `new LedgerPlugin(...)`, or the error of require.
BuildLedger(config, entry) ==
    LET creds == MigrateCreds(entry.cred)
    IN IF creds.type \notin InstalledPluginTypes
       THEN Throw("require", "Cannot find module", <<"ilp-plugin-", creds.type>>)
       ELSE Ok([ id |-> entry.ledger,
                 auth |-> creds,
                 debugReplyNotifications |-> config.features.debugReplyNotifications,
                 debugAutofund |->
                    IF config.features.debugAutoFund
                    THEN [admin |-> config.admin, connector |-> config.server.base_uri]
                    ELSE [admin |-> Undef, connector |-> Undef] ])

RECURSIVE BuildEntries(_, _)
BuildEntries(config, entries) ==
    IF entries = << >> THEN Ok(<< >>)
    ELSE LET first == BuildLedger(config, Head(entries))
         IN IF ~first.ok THEN first
            ELSE LET rest == BuildEntries(config, Tail(entries))
                 IN IF ~rest.ok THEN rest ELSE Ok(<<first.v>> \o rest.v)

\* buildLedgers: the plugins constructed, in the order of the keys of
\* ledgerCredentials, or the first error.
buildLedgers(config) == BuildEntries(config, config.ledgerCredentials)

\* The object buildLedgers returns: ledger id -> handle.  The handle of a
\* ledger is named by the ledger's id.
LedgersObject(built) ==
    [id \in {built[i].id : i \in 1..Len(built)} |-> id]

Put(m, k, v) == [x \in DOMAIN m \cup {k} |-> IF x = k THEN v ELSE m[x]]

Delete(m, k) == [x \in DOMAIN m \ {k} |-> m[x]]

\* getLedgers with the registry's own object returned instead of a copy.
getLedgers_ReturnsSelf(h, self) ==
    [heap |-> [h EXCEPT ![self].escaped = TRUE], ref |-> self]

\* getLedgers: _.clone allocates a new object with the same keys and values;
\* the caller holds the only reference to it.
getLedgers(h, self) ==
    [heap |-> Append(h, [obj |-> h[self].obj, escaped |-> TRUE]), ref |-> Len(h) + 1]

\* getLedger: this.ledgers[ledgerId]
getLedger(obj, ledgerId) == IF ledgerId \in DOMAIN obj THEN obj[ledgerId] ELSE NoHandle

\* getStatus with _.some in the place of _.every.
getStatus_Some(obj, isConnected) == \E id \in DOMAIN obj : isConnected[obj[id]]

\* getStatus: _.every(this.ledgers, (ledger) => ledger.isConnected())
getStatus(obj, isConnected) == \A id \in DOMAIN obj : isConnected[obj[id]]

\* new Multiledger(options): buildLedgers, then the health flag.
Construct ==
    /\ pc = "unbuilt"
    /\ LET built == buildLedgers(options)
       IN IF built.ok
          THEN /\ pc' = "built"
               /\ plugins' = built.v
               /\ heap' = <<[obj |-> LedgersObject(built.v), escaped |-> FALSE]>>
               /\ ledgers' = 1
               /\ ledgersHealth' = "statusNotOk"
               /\ connected' = [h \in {built.v[i].id : i \in 1..Len(built.v)}
                                    \cup {ForeignHandle} |-> FALSE]
               /\ ret' = [op |-> "new", ok |-> TRUE]
          ELSE /\ pc' = "failed"
               /\ ret' = [op |-> "new", ok |-> FALSE, err |-> built.err]
               /\ UNCHANGED <<plugins, heap, ledgers, ledgersHealth, connected>>
    /\ UNCHANGED <<options, configVars>>

\* Ledger ids a caller may ask for or store under: the configured ones and one
\* that is not.
AskedIds == {options.ledgerCredentials[i].ledger : i \in 1..Len(options.ledgerCredentials)}
                \cup {<<"z">>}

GetLedger(ledgerId) ==
    /\ pc = "built"
    /\ ret' = [op |-> "getLedger", id |-> ledgerId, v |-> getLedger(heap[ledgers].obj, ledgerId)]
    /\ UNCHANGED <<options, pc, ledgers, heap, plugins, ledgersHealth, connected, configVars>>

GetLedgers ==
    /\ pc = "built"
    /\ Len(heap) <= MaxCopies
    /\ heap' = getLedgers(heap, ledgers).heap
    /\ ret' = [op |-> "getLedgers", ref |-> getLedgers(heap, ledgers).ref]
    /\ UNCHANGED <<options, pc, ledgers, plugins, ledgersHealth, connected, configVars>>

\* getType: this.getLedger(ledgerId).constructor.TYPE, a TypeError when the
\* ledger is unknown.
GetType(ledgerId) ==
    /\ pc = "built"
    /\ ret' = IF getLedger(heap[ledgers].obj, ledgerId) = NoHandle
              THEN [op |-> "getType", id |-> ledgerId, ok |-> FALSE, err |-> "TypeError"]
              ELSE LET i == CHOOSE i \in 1..Len(plugins) :
                                plugins[i].id = getLedger(heap[ledgers].obj, ledgerId)
                   IN [op |-> "getType", id |-> ledgerId, ok |-> TRUE, v |-> plugins[i].auth.type]
    /\ UNCHANGED <<options, pc, ledgers, heap, plugins, ledgersHealth, connected, configVars>>

GetStatus ==
    /\ pc = "built"
    /\ ret' = [op |-> "getStatus", v |-> getStatus(heap[ledgers].obj, connected)]
    /\ UNCHANGED <<options, pc, ledgers, heap, plugins, ledgersHealth, connected, configVars>>

\* A caller assigns a key of a mapping it holds a reference to.
CallerAssigns(ref, ledgerId) ==
    /\ pc = "built"
    /\ heap[ref].escaped
    /\ heap' = [heap EXCEPT ![ref].obj = Put(@, ledgerId, ForeignHandle)]
    /\ ret' = [op |-> "none"]
    /\ UNCHANGED <<options, pc, ledgers, plugins, ledgersHealth, connected, configVars>>

\* A caller deletes a key of a mapping it holds a reference to.
CallerDeletes(ref, ledgerId) ==
    /\ pc = "built"
    /\ heap[ref].escaped
    /\ ledgerId \in DOMAIN heap[ref].obj
    /\ heap' = [heap EXCEPT ![ref].obj = Delete(@, ledgerId)]
    /\ ret' = [op |-> "none"]
    /\ UNCHANGED <<options, pc, ledgers, plugins, ledgersHealth, connected, configVars>>

\* A plugin connects to or loses its ledger.
PluginConnectivity(handle, up) ==
    /\ pc = "built"
    /\ handle \in DOMAIN connected \ {ForeignHandle}
    /\ connected[handle] # up
    /\ connected' = [connected EXCEPT ![handle] = up]
    /\ ret' = [op |-> "none"]
    /\ UNCHANGED <<options, pc, ledgers, heap, plugins, ledgersHealth, configVars>>

\* Credential objects for the build: each form of the account identifier and
\* each kind of plugin type.
BuildCreds ==
    { [GoodCred EXCEPT !.account = a[1], !.account_uri = a[2], !.type = t] :
        a \in { <<"acc", Undef>>, <<Undef, "uri">>, <<"acc", "uri">>, <<"acc", "">>,
                <<Undef, "">> },
        t \in {Undef, "bells", "virtual", "nosuch"} }

ConfigOf(creds, reply, fund) ==
    [ ledgerCredentials |-> Entries(creds),
      features |-> [debugReplyNotifications |-> reply, debugAutoFund |-> fund],
      admin |-> [username |-> "admin", password |-> "secret"],
      server |-> [base_uri |-> "http://localhost"] ]

RegistryInit(configs) ==
    /\ options \in configs
    /\ pc = "unbuilt"
    /\ ledgers = 0
    /\ heap = << >>
    /\ plugins = << >>
    /\ ledgersHealth = Undef
    /\ connected = << >>
    /\ ret = [op |-> "none"]
    /\ env = EmptyEnv
    /\ call = "none"
    /\ result = NoResult

InitBuild ==
    RegistryInit({ConfigOf(c, FALSE, f) : c \in SeqsUpTo(BuildCreds, MaxCreds), f \in BOOLEAN})
NextBuild ==
    \/ Construct
    \/ \E id \in AskedIds : GetLedger(id)
    \/ \E id \in AskedIds : GetType(id)
SpecBuild == InitBuild /\ [][NextBuild]_vars

InitRegistry ==
    RegistryInit({ConfigOf(c, FALSE, FALSE) : c \in SeqsUpTo({GoodCred}, MaxHandles)})
NextRegistry ==
    \/ Construct
    \/ \E id \in AskedIds : GetLedger(id)
    \/ GetLedgers
    \/ GetStatus
    \/ \E ref \in 1..Len(heap), id \in AskedIds : CallerAssigns(ref, id)
    \/ \E ref \in 1..Len(heap), id \in AskedIds : CallerDeletes(ref, id)
    \/ \E h \in DOMAIN connected, up \in BOOLEAN : PluginConnectivity(h, up)
SpecRegistry == InitRegistry /\ [][NextRegistry]_vars

-----------------------------------------------------------------------------
(* Properties of the registry *)

\* C7 as stated: after the build, a credential that supplied account_uri
\* reaches its plugin with account equal to the original account_uri and with
\* no account_uri, and for every input credential, also one with both fields
\* or with an empty account_uri, the two never coexist.
C7_Original ==
    pc = "built" =>
        \A i \in 1..Len(plugins) :
            LET original == options.ledgerCredentials[i].cred
                auth == plugins[i].auth
            IN /\ original.account_uri # Undef =>
                    (auth.account = original.account_uri /\ auth.account_uri = Undef)
               /\ ~(auth.account # Undef /\ auth.account_uri # Undef)

\* C8 as stated: a credential type with no plugin makes the construction fail
\* with a dedicated "no such plugin type" error, not with the error of the
\* module lookup, and no registry is produced.
C8_Original ==
    pc = "failed" =>
        /\ ret.op = "new" /\ ~ret.ok
        /\ ret.err.kind = "No such plugin type"
        /\ ledgers = 0

\* The handles the constructor built.
BuiltHandles == {plugins[i].id : i \in 1..Len(plugins)}

C9_Poll ==
    GetStatus =>
        /\ ret'.v = (\A h \in BuiltHandles : connected[h])
        /\ BuiltHandles = {} => ret'.v = TRUE
        /\ heap'[ledgers'].obj = [h \in BuiltHandles |-> h]
        /\ ledgersHealth' = "statusNotOk"

\* C9: getStatus() returns true exactly when every handle the registry built
\* now reports connected, true with no handle at all; the poll leaves the
\* ledger mapping and the stored health flag as they were, and the flag stays
\* at its initial "not ok" value.
C9_StatusIsEveryConnected ==
    [][C9_Poll]_vars /\ [](pc = "built" => ledgersHealth = "statusNotOk")

\* C9's case: of two handles one is connected and one is not, and the poll
\* returned false.
C9_Witness ==
    /\ ret.op = "getStatus"
    /\ ret.v = FALSE
    /\ Cardinality(BuiltHandles) = 2
    /\ \E h \in BuiltHandles : connected[h]
    /\ \E h \in BuiltHandles : ~connected[h]

=============================================================================
